---- MODULE Spec2Model ----
(***************************************************************************)
(* Model of the NAT configuration layer (src/nat/config.go): subnet        *)
(* containment, port-forward rule validation, ReadConfig's cross-checks,   *)
(* static port-forward installation, and the port allocator's slot state.  *)
(* Time is counted in seconds.                                             *)
(***************************************************************************)
EXTENDS Integers, Sequences, FiniteSets, TLC

VARIABLES
    Natconfig,   \* the decoded Config: [HostName, PortPairs]
    NeedKNI,     \* package variable NeedKNI
    NeedDHCP,    \* package variable NeedDHCP
    err,         \* the error ReadConfig / checkPortForwarding returned
    pc,          \* position of the program
    loop,        \* ReadConfig's loop variables: [i, pi, fpi]
    subnetIn,    \* input of a containment test: [kind, subnet, addr]
    subnetOut,   \* its result
    hostPortIn,  \* input of a hostPort.UnmarshalJSON call: the JSON string
    hostPortOut, \* what the call returned and left in *out: [err, out]
    now,         \* the clock, in seconds
    ticks,       \* how many times the clock has advanced
    portmap,     \* PublicPort.portmap / portmap6: [ipv6][protocol][port]
    lastport,    \* portPair.lastport
    translationTable,  \* [interface][protocol]: the two ports' lookup tables
    alloc,       \* what the last lookup-or-allocate returned: [port, err]
    closedAt,    \* [port]: when FIN was seen in both directions on the TCP
                 \* slot, while no packet has refreshed the slot since
    pairState,   \* [pair]: mutex, lastport, slots and private table of each
                 \* portPair while workers allocate concurrently
    workers,     \* [worker]: where each worker thread is in its allocation
    initPorts,   \* [interface]: SrcMACAddress and the derived IPv6 addresses
                 \* of the pair InitFlows is working on
    wiring       \* the flow-graph InitFlows has built for the pair

configVars == <<Natconfig, NeedKNI, NeedDHCP, err, pc, loop>>
subnetVars == <<subnetIn, subnetOut, hostPortIn, hostPortOut>>
flowVars == <<initPorts, wiring>>
allocVars == <<now, ticks, portmap, lastport, translationTable, alloc, closedAt,
              pairState, workers, initPorts, wiring>>
vars == <<Natconfig, NeedKNI, NeedDHCP, err, pc, loop, subnetIn, subnetOut,
          hostPortIn, hostPortOut,
          now, ticks, portmap, lastport, translationTable, alloc, closedAt,
          pairState, workers, initPorts, wiring>>

----------------------------------------------------------------------------
(* Program constants *)

iPUBLIC == 0
iPRIVATE == 1
TCPNumber == 6
UDPNumber == 17

\* `nil` error
NoError == "nil"

zeroIPv6Addr == [i \in 1..16 |-> 0]
zeroMACAddress == [i \in 1..6 |-> 0]

protocolIdLookup ==
    [TCP  |-> [id |-> TCPNumber, ipv6 |-> FALSE],
     UDP  |-> [id |-> UDPNumber, ipv6 |-> FALSE],
     TCP6 |-> [id |-> TCPNumber, ipv6 |-> TRUE],
     UDP6 |-> [id |-> UDPNumber, ipv6 |-> TRUE]]

----------------------------------------------------------------------------
(* Go's & on unsigned integers of width w *)

RECURSIVE BitAnd(_, _, _)
BitAnd(a, b, w) ==
    IF w = 0 THEN 0
    ELSE (a % 2) * (b % 2) + 2 * BitAnd(a \div 2, b \div 2, w - 1)

\* A types.IPv4Address (uint32) is held as its four bytes, most significant
\* first: a 32-bit value as four bytes, and & acts on each byte.
zeroIPv4Addr == <<0, 0, 0, 0>>

BitAnd32(a, b) == [i \in 1..4 |-> BitAnd(a[i], b[i], 8)]

\* Result of convertIPv4: [err, addr]; `in` is a byte sequence, <<>> for nil.
\* BytesToIPv4(in[3], in[2], in[1], in[0]) makes in[0] the most significant
\* byte of the result.
convertIPv4(in) ==
    IF Len(in) = 0 \/ Len(in) > 4
    THEN [err |-> "OnlyIPv4Supported", addr |-> zeroIPv4Addr]
    ELSE [err |-> NoError, addr |-> <<in[1], in[2], in[3], in[4]>>]

IPv4(a, b, c, d) == convertIPv4(<<a, b, c, d>>).addr

----------------------------------------------------------------------------
(* Subnet descriptors *)

ipv4Subnet_checkAddrWithingSubnet_plainEq(subnet, addr) ==
    addr = subnet.Addr

ipv4Subnet_checkAddrWithingSubnet(subnet, addr) ==
    BitAnd32(addr, subnet.Mask) = BitAnd32(subnet.Addr, subnet.Mask)

ipv6Subnet_andMask(subnet, addr) ==
    [i \in 1..16 |-> BitAnd(addr[i], subnet.Mask[i], 8)]

ipv6Subnet_checkAddrWithingSubnet(subnet, addr) ==
    ipv6Subnet_andMask(subnet, addr) = ipv6Subnet_andMask(subnet, subnet.Addr)

\* s is the subnet text: [kind |-> "dhcp"], or [kind |-> "cidr", ip, mask]
\* holding what net.ParseCIDR gave, or [kind |-> "ip", ip] holding what
\* net.ParseIP gave (byte sequences).
ipv4Subnet_UnmarshalJSON_dhcpHostMask(s) ==
    IF s.kind = "dhcp"
    THEN [Addr |-> zeroIPv4Addr, Mask |-> <<255, 255, 255, 255>>,
          addressAcquired |-> FALSE]
    ELSE IF s.kind = "cidr"
    THEN [Addr |-> convertIPv4(s.ip).addr, Mask |-> convertIPv4(s.mask).addr,
          addressAcquired |-> TRUE]
    ELSE [Addr |-> convertIPv4(s.ip).addr, Mask |-> <<255, 255, 255, 255>>,
          addressAcquired |-> TRUE]

ipv4Subnet_UnmarshalJSON(s) ==
    IF s.kind = "dhcp"
    THEN [Addr |-> zeroIPv4Addr, Mask |-> zeroIPv4Addr, addressAcquired |-> FALSE]
    ELSE IF s.kind = "cidr"
    THEN [Addr |-> convertIPv4(s.ip).addr, Mask |-> convertIPv4(s.mask).addr,
          addressAcquired |-> TRUE]
    ELSE [Addr |-> convertIPv4(s.ip).addr, Mask |-> <<255, 255, 255, 255>>,
          addressAcquired |-> TRUE]

ipv6Subnet_UnmarshalJSON(s) ==
    IF s.kind = "dhcp"
    THEN [Addr |-> zeroIPv6Addr, Mask |-> zeroIPv6Addr, addressAcquired |-> FALSE]
    ELSE IF s.kind = "cidr"
    THEN [Addr |-> s.ip, Mask |-> s.mask, addressAcquired |-> TRUE]
    ELSE [Addr |-> s.ip, Mask |-> [i \in 1..16 |-> 255], addressAcquired |-> TRUE]

----------------------------------------------------------------------------
(* Port-forward rule validation: ipPort.checkPortForwarding *)

\* fp.Destination.ipv6 != fp.Protocol.ipv6
familyMismatch_oneWay(fp) ==
    fp.Destination.ipv6 /\ ~fp.Protocol.ipv6

familyMismatch(fp) ==
    fp.Destination.ipv6 # fp.Protocol.ipv6

isAddrZero(fp) ==
    IF fp.Destination.ipv6
    THEN fp.Destination.Addr6 = zeroIPv6Addr
    ELSE fp.Destination.Addr4 = zeroIPv4Addr

\* The branch taken for the unspecified address: the error, or nil.
kniForwardCheck_noPortCheck(port, fp) ==
    IF port.KNIName = "" THEN "KNINameMissing" ELSE NoError

kniForwardCheck(port, fp) ==
    IF port.KNIName = "" THEN "KNINameMissing"
    ELSE IF fp.Destination.Port # fp.Port THEN "KNIPortMismatch"
    ELSE NoError

privateForwardForbidden_swapped(port) ==
    port.Type = iPUBLIC

privateForwardForbidden(port) ==
    port.Type = iPRIVATE

\* The containment step against port.opposite's subnet of the rule's family.
destinationSubnetCheck_ownSubnet(port, opposite, fp) ==
    IF fp.Destination.ipv6
    THEN IF ~ipv6Subnet_checkAddrWithingSubnet(port.Subnet6, fp.Destination.Addr6)
         THEN "OutsideSubnet6" ELSE NoError
    ELSE IF ~ipv4Subnet_checkAddrWithingSubnet(port.Subnet, fp.Destination.Addr4)
         THEN "OutsideSubnet4" ELSE NoError

destinationSubnetCheck(port, opposite, fp) ==
    IF fp.Destination.ipv6
    THEN IF ~ipv6Subnet_checkAddrWithingSubnet(opposite.Subnet6, fp.Destination.Addr6)
         THEN "OutsideSubnet6" ELSE NoError
    ELSE IF ~ipv4Subnet_checkAddrWithingSubnet(opposite.Subnet, fp.Destination.Addr4)
         THEN "OutsideSubnet4" ELSE NoError

defaultDestinationPort_always(fp) ==
    [fp EXCEPT !.Destination.Port = fp.Port]

defaultDestinationPort(fp) ==
    IF fp.Destination.Port = 0
    THEN [fp EXCEPT !.Destination.Port = fp.Port]
    ELSE fp

\* Result: [err, fp, NeedKNI]: the error returned, the rule as the call
\* leaves it, and whether the call set NeedKNI.
checkPortForwarding(port, opposite, fp) ==
    IF familyMismatch(fp)
    THEN [err |-> "ProtocolFamily", fp |-> fp, NeedKNI |-> FALSE]
    ELSE IF isAddrZero(fp)
    THEN IF kniForwardCheck(port, fp) # NoError
         THEN [err |-> kniForwardCheck(port, fp), fp |-> fp, NeedKNI |-> FALSE]
         ELSE [err |-> NoError, fp |-> fp, NeedKNI |-> TRUE]
    ELSE IF privateForwardForbidden(port)
    THEN [err |-> "PrivateForward", fp |-> fp, NeedKNI |-> FALSE]
    ELSE IF destinationSubnetCheck(port, opposite, fp) # NoError
    THEN [err |-> destinationSubnetCheck(port, opposite, fp), fp |-> fp,
          NeedKNI |-> FALSE]
    ELSE [err |-> NoError, fp |-> defaultDestinationPort(fp), NeedKNI |-> FALSE]

----------------------------------------------------------------------------
(* ReadConfig *)

vlanCheck_oneWay(pp) ==
    IF pp.PrivatePort.Vlan = 0 /\ pp.PublicPort.Vlan # 0
    THEN "PrivateZeroVlanPublicNonZero"
    ELSE NoError

vlanCheck(pp) ==
    IF pp.PrivatePort.Vlan = 0 /\ pp.PublicPort.Vlan # 0
    THEN "PrivateZeroVlanPublicNonZero"
    ELSE IF pp.PrivatePort.Vlan # 0 /\ pp.PublicPort.Vlan = 0
    THEN "PrivateNonZeroVlanPublicZero"
    ELSE NoError

\* Both disjuncts of the source's condition read the private port.
vlanKniCheck(pp) ==
    IF \/ (pp.PrivatePort.Vlan # 0 /\ pp.PrivatePort.KNIName # "")
       \/ (pp.PrivatePort.Vlan # 0 /\ pp.PrivatePort.KNIName # "")
    THEN "VlanWithKNI"
    ELSE NoError

dhcpNeedsHostName(port, hostName) ==
    ~port.Subnet.addressAcquired /\ hostName = ""

staticArp_always(port) ==
    [port EXCEPT !.staticArpMode = TRUE]

staticArp(port) ==
    IF port.DstMACAddress # zeroMACAddress
    THEN [port EXCEPT !.staticArpMode = TRUE]
    ELSE port

\* `port` of the loop over a pair's two ports (pi = 0: PrivatePort), and
\* port.opposite
CurrentPort == 
    IF loop.pi = 0 THEN Natconfig.PortPairs[loop.i].PrivatePort
    ELSE Natconfig.PortPairs[loop.i].PublicPort

OppositePort ==
    IF loop.pi = 0 THEN Natconfig.PortPairs[loop.i].PublicPort
    ELSE Natconfig.PortPairs[loop.i].PrivatePort

WithCurrentPort(port) ==
    IF loop.pi = 0 THEN [Natconfig EXCEPT !.PortPairs[loop.i].PrivatePort = port]
    ELSE [Natconfig EXCEPT !.PortPairs[loop.i].PublicPort = port]

\* Top of the loop over the pairs: types and opposite are set, then the two
\* VLAN checks.
ReadConfigPair ==
    /\ pc = "pair"
    /\ loop.i <= Len(Natconfig.PortPairs)
    /\ Natconfig' = [Natconfig EXCEPT !.PortPairs[loop.i].PrivatePort.Type = iPRIVATE,
                                      !.PortPairs[loop.i].PublicPort.Type = iPUBLIC]
    /\ err' = IF vlanCheck(Natconfig.PortPairs[loop.i]) # NoError
              THEN vlanCheck(Natconfig.PortPairs[loop.i])
              ELSE vlanKniCheck(Natconfig.PortPairs[loop.i])
    /\ pc' = IF err' # NoError THEN "returned" ELSE "port"
    /\ loop' = [loop EXCEPT !.pi = 0]
    /\ UNCHANGED <<NeedKNI, NeedDHCP, subnetVars, allocVars>>

\* Top of the loop over the two ports: the DHCP check and the KNI flag.
ReadConfigPort ==
    /\ pc = "port"
    /\ IF dhcpNeedsHostName(CurrentPort, Natconfig.HostName)
       THEN /\ err' = "DHCPNeedsHostName"
            /\ pc' = "returned"
            /\ UNCHANGED <<NeedKNI, NeedDHCP>>
       ELSE /\ NeedDHCP' = (NeedDHCP \/ ~CurrentPort.Subnet.addressAcquired)
            /\ NeedKNI' = (NeedKNI \/ CurrentPort.KNIName # "")
            /\ pc' = "rule"
            /\ UNCHANGED err
    /\ loop' = [loop EXCEPT !.fpi = 1]
    /\ UNCHANGED <<Natconfig, subnetVars, allocVars>>

\* One iteration of the loop over port.ForwardPorts.
ReadConfigRule ==
    /\ pc = "rule"
    /\ loop.fpi <= Len(CurrentPort.ForwardPorts)
    /\ LET r == checkPortForwarding(CurrentPort, OppositePort,
                                    CurrentPort.ForwardPorts[loop.fpi])
       IN  /\ err' = r.err
           /\ Natconfig' = WithCurrentPort(
                  [CurrentPort EXCEPT !.ForwardPorts[loop.fpi] = r.fp])
           /\ NeedKNI' = (NeedKNI \/ r.NeedKNI)
    /\ pc' = IF err' # NoError THEN "returned" ELSE "rule"
    /\ loop' = IF err' # NoError THEN loop ELSE [loop EXCEPT !.fpi = @ + 1]
    /\ UNCHANGED <<NeedDHCP, subnetVars, allocVars>>

\* End of the loop over port.ForwardPorts: static ARP mode, next port.
ReadConfigPortEnd ==
    /\ pc = "rule"
    /\ loop.fpi > Len(CurrentPort.ForwardPorts)
    /\ Natconfig' = WithCurrentPort(staticArp(CurrentPort))
    /\ IF loop.pi = 0
       THEN /\ loop' = [loop EXCEPT !.pi = 1]
            /\ pc' = "port"
       ELSE /\ loop' = [loop EXCEPT !.pi = 2, !.i = @ + 1]
            /\ pc' = "pair"
    /\ UNCHANGED <<NeedKNI, NeedDHCP, err, subnetVars, allocVars>>

\* The loop over the pairs is over: return nil.
ReadConfigReturn ==
    /\ pc = "pair"
    /\ loop.i > Len(Natconfig.PortPairs)
    /\ pc' = "returned"
    /\ UNCHANGED <<Natconfig, NeedKNI, NeedDHCP, err, loop, subnetVars, allocVars>>

----------------------------------------------------------------------------
(* Inputs *)

\* A hostPort as hostPort.UnmarshalJSON leaves it for an IPv4 / IPv6 host.
HostPort4(addr, port) ==
    [Addr4 |-> addr, Addr6 |-> zeroIPv6Addr, Port |-> port, ipv6 |-> FALSE]

HostPort6(addr, port) ==
    [Addr4 |-> zeroIPv4Addr, Addr6 |-> addr, Port |-> port, ipv6 |-> TRUE]

\* The IPv6 address b1 b2 :: last
IPv6(b1, b2, last) ==
    [i \in 1..16 |-> IF i = 1 THEN b1 ELSE IF i = 2 THEN b2
                     ELSE IF i = 16 THEN last ELSE 0]

\* The IPv6 mask of n leading all-ones bytes
IPv6Mask(n) == [i \in 1..16 |-> IF i <= n THEN 255 ELSE 0]

DhcpText == [kind |-> "dhcp"]
PrivateSubnetText == [kind |-> "cidr", ip |-> <<192, 168, 14, 1>>, mask |-> <<255, 255, 255, 0>>]
PublicSubnetText == [kind |-> "cidr", ip |-> <<192, 168, 16, 1>>, mask |-> <<255, 255, 255, 0>>]
PrivateSubnet6Text == [kind |-> "cidr", ip |-> IPv6(253, 20, 1), mask |-> IPv6Mask(8)]
PublicSubnet6Text == [kind |-> "cidr", ip |-> IPv6(253, 22, 1), mask |-> IPv6Mask(8)]

Vlans == {0, 7}
KNINames == {"", "kni0"}
HostNames == {"", "nat-host"}
MACs == {zeroMACAddress, [i \in 1..6 |-> 17 * i]}

\* An ipPort as json decoding leaves it: unexported fields hold zero values.
DecodedPort(subnet, subnet6, vlan, kni, rules, mac) ==
    [Subnet |-> ipv4Subnet_UnmarshalJSON(subnet),
     Subnet6 |-> ipv6Subnet_UnmarshalJSON(subnet6),
     Vlan |-> vlan, KNIName |-> kni, ForwardPorts |-> rules,
     DstMACAddress |-> mac, staticArpMode |-> FALSE, Type |-> 0]

sentinelRule ==
    [Port |-> 8080, Destination |-> HostPort4(zeroIPv4Addr, 8080), Protocol |-> protocolIdLookup.TCP]
forwardRule ==
    [Port |-> 8080, Destination |-> HostPort4(IPv4(192, 168, 14, 2), 0),
     Protocol |-> protocolIdLookup.TCP]
badFamilyRule ==
    [Port |-> 22, Destination |-> HostPort6(IPv6(253, 20, 2), 22),
     Protocol |-> protocolIdLookup.UDP]

RuleLists == {<<>>, <<sentinelRule>>, <<forwardRule>>, <<forwardRule, badFamilyRule>>}

\* Pairs every check accepts whatever the host name: the pairs the loop
\* passes before it reaches the last one.
PassingPairs ==
    { [PrivatePort |-> DecodedPort(PrivateSubnetText, PrivateSubnet6Text, 0, "",
                                   <<>>, zeroMACAddress),
       PublicPort |-> DecodedPort(PublicSubnetText, PublicSubnet6Text, 0, "",
                                  <<>>, zeroMACAddress)],
      [PrivatePort |-> DecodedPort(PrivateSubnetText, PrivateSubnet6Text, 0, "",
                                   <<>>, [i \in 1..6 |-> 17 * i]),
       PublicPort |-> DecodedPort(PublicSubnetText, PublicSubnet6Text, 0, "kni0",
                                  <<sentinelRule, forwardRule>>, zeroMACAddress)] }

MaxPairs == 2

PassingPrefixes == UNION { [1..k -> PassingPairs] : k \in 0..(MaxPairs - 1) }

NoSubnetCase == [kind |-> "none"]
NoResult == "none"
NoHostPortText == [split |-> FALSE, to4 |-> <<>>, to16 |-> <<>>, portStr |-> <<>>]

\* The allocator's state before InitFlows: nothing is allocated
AllocatorNotStarted ==
    /\ now = 0
    /\ ticks = 0
    /\ portmap = <<>>
    /\ lastport = 0
    /\ translationTable = <<>>
    /\ alloc = [port |-> 0, err |-> NoError]
    /\ closedAt = <<>>
    /\ pairState = <<>>
    /\ workers = <<>>
    /\ initPorts = <<>>
    /\ wiring = <<>>

----------------------------------------------------------------------------
(* Specification of ReadConfig: the configuration has been decoded *)

Init ==
    /\ \E h \in HostNames, prefix \in PassingPrefixes,
          s1 \in {DhcpText, PrivateSubnetText}, s2 \in {DhcpText, PublicSubnetText},
          t1 \in {DhcpText, PrivateSubnet6Text}, t2 \in {DhcpText, PublicSubnet6Text},
          v1 \in Vlans, v2 \in Vlans, k1 \in KNINames, k2 \in KNINames,
          r1 \in RuleLists, r2 \in RuleLists, m1 \in MACs, m2 \in MACs :
            Natconfig =
              [HostName |-> h,
               PortPairs |-> prefix \o
                 <<[PrivatePort |-> DecodedPort(s1, t1, v1, k1, r1, m1),
                    PublicPort |-> DecodedPort(s2, t2, v2, k2, r2, m2)]>>]
    /\ NeedKNI = FALSE
    /\ NeedDHCP = FALSE
    /\ err = NoError
    /\ pc = "pair"
    /\ loop = [i |-> 1, pi |-> 0, fpi |-> 1]
    /\ subnetIn = NoSubnetCase
    /\ subnetOut = NoResult
    /\ hostPortIn = NoHostPortText
    /\ hostPortOut = NoResult
    /\ AllocatorNotStarted

Next ==
    \/ ReadConfigPair
    \/ ReadConfigPort
    \/ ReadConfigRule
    \/ ReadConfigPortEnd
    \/ ReadConfigReturn

Spec == Init /\ [][Next]_vars

----------------------------------------------------------------------------
(* Specification of port-forward validation: ReadConfig on one pair that  *)
(* holds one rule, the rule and its interface drawn from wider sets       *)

FwdAddrs4 ==
    {zeroIPv4Addr, IPv4(192, 168, 14, 2), IPv4(192, 168, 16, 9), IPv4(8, 8, 8, 8)}
FwdAddrs6 ==
    {zeroIPv6Addr, IPv6(253, 20, 2), IPv6(253, 22, 9), IPv6(32, 1, 1)}
FwdPorts == {0, 443, 8080}
FwdDestPorts == {0, 80, 8080}
Protocols == {protocolIdLookup[n] : n \in DOMAIN protocolIdLookup}

FwdDestinations ==
    {HostPort4(a, p) : a \in FwdAddrs4, p \in FwdDestPorts}
      \cup {HostPort6(a, p) : a \in FwdAddrs6, p \in FwdDestPorts}

InitFwd ==
    /\ \E s1 \in {DhcpText, PrivateSubnetText}, s2 \in {DhcpText, PublicSubnetText},
          t1 \in {DhcpText, PrivateSubnet6Text}, t2 \in {DhcpText, PublicSubnet6Text},
          k1 \in KNINames, k2 \in KNINames, private \in BOOLEAN,
          port \in FwdPorts, dst \in FwdDestinations, proto \in Protocols :
            LET fp == [Port |-> port, Destination |-> dst, Protocol |-> proto]
            IN  Natconfig =
                  [HostName |-> "nat-host",
                   PortPairs |->
                     <<[PrivatePort |->
                          DecodedPort(s1, t1, 0, k1,
                                      IF private THEN <<fp>> ELSE <<>>,
                                      zeroMACAddress),
                        PublicPort |->
                          DecodedPort(s2, t2, 0, k2,
                                      IF private THEN <<>> ELSE <<fp>>,
                                      zeroMACAddress)]>>]
    /\ NeedKNI = FALSE
    /\ NeedDHCP = FALSE
    /\ err = NoError
    /\ pc = "pair"
    /\ loop = [i |-> 1, pi |-> 0, fpi |-> 1]
    /\ subnetIn = NoSubnetCase
    /\ subnetOut = NoResult
    /\ hostPortIn = NoHostPortText
    /\ hostPortOut = NoResult
    /\ AllocatorNotStarted

SpecFwd == InitFwd /\ [][Next]_vars

----------------------------------------------------------------------------
(* Specification of the containment test *)

SubnetAddrs4 ==
    {zeroIPv4Addr, IPv4(192, 168, 1, 0), IPv4(192, 168, 1, 77), IPv4(10, 0, 0, 1),
     IPv4(255, 255, 255, 255)}
SubnetMasks4 ==
    {zeroIPv4Addr, IPv4(255, 0, 0, 0), IPv4(255, 255, 255, 0),
     IPv4(255, 255, 255, 252), IPv4(255, 255, 255, 255)}
TestAddrs4 ==
    {zeroIPv4Addr, IPv4(192, 168, 1, 0), IPv4(192, 168, 1, 200),
     IPv4(192, 168, 1, 255), IPv4(192, 168, 2, 1), IPv4(10, 255, 255, 255),
     IPv4(192, 168, 1, 79), IPv4(255, 255, 255, 255)}

\* The mask of 12 leading ones: its second byte is cut by the prefix
IPv6Mask12 == [i \in 1..16 |-> IF i = 1 THEN 255 ELSE IF i = 2 THEN 240 ELSE 0]
\* The last address of fd14::/64
IPv6AllOnes64 == [i \in 1..16 |-> IF i = 1 THEN 253 ELSE IF i = 2 THEN 20
                                  ELSE IF i <= 8 THEN 0 ELSE 255]

SubnetAddrs6 == {zeroIPv6Addr, IPv6(253, 20, 0), IPv6(253, 20, 1)}
SubnetMasks6 == {zeroIPv6Addr, IPv6Mask12, IPv6Mask(8), IPv6Mask(16)}
TestAddrs6 ==
    {zeroIPv6Addr, IPv6(253, 20, 0), IPv6(253, 20, 1), IPv6AllOnes64,
     IPv6(253, 31, 1), IPv6(253, 36, 1), [i \in 1..16 |-> 255]}

InitSubnet ==
    /\ Natconfig = [HostName |-> "", PortPairs |-> <<>>]
    /\ NeedKNI = FALSE
    /\ NeedDHCP = FALSE
    /\ err = NoError
    /\ pc = "subnet"
    /\ loop = [i |-> 1, pi |-> 0, fpi |-> 1]
    /\ \/ \E a \in SubnetAddrs4, m \in SubnetMasks4, x \in TestAddrs4 :
            subnetIn = [kind |-> "ipv4",
                        subnet |-> [Addr |-> a, Mask |-> m, addressAcquired |-> TRUE],
                        addr |-> x]
       \/ \E a \in SubnetAddrs6, m \in SubnetMasks6, x \in TestAddrs6 :
            subnetIn = [kind |-> "ipv6",
                        subnet |-> [Addr |-> a, Mask |-> m, addressAcquired |-> TRUE],
                        addr |-> x]
    /\ subnetOut = NoResult
    /\ hostPortIn = NoHostPortText
    /\ hostPortOut = NoResult
    /\ AllocatorNotStarted

\* A call of checkAddrWithingSubnet on the subnet of the input's family
CheckAddrWithinSubnet ==
    /\ pc = "subnet"
    /\ subnetOut' =
         IF subnetIn.kind = "ipv6"
         THEN IF ipv6Subnet_checkAddrWithingSubnet(subnetIn.subnet, subnetIn.addr)
              THEN "true" ELSE "false"
         ELSE IF ipv4Subnet_checkAddrWithingSubnet(subnetIn.subnet, subnetIn.addr)
              THEN "true" ELSE "false"
    /\ pc' = "subnet_done"
    /\ UNCHANGED <<Natconfig, NeedKNI, NeedDHCP, err, loop, subnetIn, hostPortIn,
                   hostPortOut, allocVars>>

SpecSubnet == InitSubnet /\ [][CheckAddrWithinSubnet]_vars

----------------------------------------------------------------------------
(* Parsing of a forwarding rule's "host:port" destination *)

\* The characters of a port text are one-character strings
DigitValue ==
    [c \in {"0", "1", "2", "3", "4", "5", "6", "7", "8", "9"} |->
        CASE c = "0" -> 0 [] c = "1" -> 1 [] c = "2" -> 2 [] c = "3" -> 3
          [] c = "4" -> 4 [] c = "5" -> 5 [] c = "6" -> 6 [] c = "7" -> 7
          [] c = "8" -> 8 [] c = "9" -> 9]

\* The largest magnitude strconv.ParseInt accepts at bitSize 32 is 2^31 for
\* a negative text and 2^31 - 1 otherwise.  Digits are accumulated while
\* the value stays below 2^31; a character that is not a digit (ErrSyntax)
\* and a value out of range (ErrRange) both return a *NumError.
RECURSIVE parseDigits(_, _)
parseDigits(str, acc) ==
    IF Len(str) = 0 THEN [err |-> NoError, n |-> acc]
    ELSE IF Head(str) \notin DOMAIN DigitValue
    THEN [err |-> "NumError", n |-> 0]
    ELSE IF acc > (2147483647 - DigitValue[Head(str)]) \div 10
    THEN [err |-> "NumError", n |-> 0]
    ELSE parseDigits(Tail(str), 10 * acc + DigitValue[Head(str)])

\* strconv.ParseInt(str, 10, 32): [err, n].  Texts of magnitude 2^31 and
\* above are reported as out of range (the one value -2^31 is not among the
\* inputs enumerated below).
ParseInt(str) ==
    IF Len(str) = 0 THEN [err |-> "NumError", n |-> 0]
    ELSE LET neg == Head(str) = "-"
             digits == IF Head(str) \in {"+", "-"} THEN Tail(str) ELSE str
             un == parseDigits(digits, 0)
         IN IF Len(digits) = 0 THEN [err |-> "NumError", n |-> 0]
            ELSE IF un.err # NoError THEN un
            ELSE [err |-> NoError, n |-> IF neg THEN 0 - un.n ELSE un.n]

\* Go's conversion of a signed integer to uint16 keeps the low 16 bits
uint16(n) == n % 65536

\* The zero value of hostPort
zeroHostPort ==
    [Addr4 |-> zeroIPv4Addr, Addr6 |-> zeroIPv6Addr, Port |-> 0, ipv6 |-> FALSE]

\* s is the JSON string: [split, to4, to16, portStr].  split tells whether
\* net.SplitHostPort found a host and a port part, to4 and to16 are what
\* net.ParseIP(hostStr).To4() and .To16() give (<<>> for nil; both <<>> when
\* ParseIP gave nil), portStr is the text after the last colon.
\* The result is [err, out].
hostPort_UnmarshalJSON(s) ==
    IF ~s.split
    THEN [err |-> "AddrError", out |-> zeroHostPort]
    ELSE IF Len(s.to4) = 0 /\ Len(s.to16) = 0
    THEN [err |-> "BadIPAddress", out |-> zeroHostPort]
    ELSE LET conv == convertIPv4(s.to4)
             out1 == [zeroHostPort EXCEPT !.Addr4 = conv.addr]
             out2 == IF conv.err = NoError THEN out1
                     ELSE [out1 EXCEPT !.Addr6 = [i \in 1..16 |-> s.to16[i]],
                                       !.ipv6 = TRUE]
         IN IF conv.err # NoError /\ Len(s.to16) = 0
            THEN [err |-> conv.err, out |-> out1]
            ELSE IF Len(s.portStr) # 0
            THEN LET port == ParseInt(s.portStr)
                 IN IF port.err # NoError
                    THEN [err |-> port.err, out |-> out2]
                    ELSE [err |-> NoError,
                          out |-> [out2 EXCEPT !.Port = uint16(port.n)]]
            ELSE [err |-> NoError, out |-> [out2 EXCEPT !.Port = 0]]

\* Host texts: 192.168.14.2, [fd14::2], a text net.ParseIP rejects
HostTexts ==
    {[to4 |-> <<192, 168, 14, 2>>,
      to16 |-> <<0, 0, 0, 0, 0, 0, 0, 0, 0, 0, 255, 255, 192, 168, 14, 2>>],
     [to4 |-> <<>>,
      to16 |-> <<253, 20, 0, 0, 0, 0, 0, 0, 0, 0, 0, 0, 0, 0, 0, 2>>],
     [to4 |-> <<>>, to16 |-> <<>>]}

\* Port texts: empty, in range, at and past the ends of 0..65535, signed,
\* not a number, and past the 32-bit range
PortTexts ==
    {<<>>, <<"0">>, <<"8", "0">>, <<"0", "0", "8", "0">>, <<"+", "8", "0">>,
     <<"4", "4", "3">>, <<"8", "0", "8", "0">>,
     <<"6", "5", "5", "3", "5">>, <<"6", "5", "5", "3", "6">>,
     <<"6", "5", "6", "1", "6">>, <<"7", "0", "0", "0", "0">>,
     <<"1", "3", "1", "1", "5", "2">>,
     <<"-", "1">>, <<"-", "6", "5", "4", "5", "6">>, <<"-">>,
     <<"x">>, <<"8", "0", "x">>, <<"8", "0", "-">>,
     <<"2", "1", "4", "7", "4", "8", "3", "6", "4", "7">>,
     <<"4", "2", "9", "4", "9", "6", "7", "3", "7", "6">>,
     <<"9", "9", "9", "9", "9", "9", "9", "9", "9", "9", "9">>,
     <<"9", "9", "9", "9", "9", "9", "9", "9", "9", "9", "x">>}

InitHostPort ==
    /\ Natconfig = [HostName |-> "", PortPairs |-> <<>>]
    /\ NeedKNI = FALSE
    /\ NeedDHCP = FALSE
    /\ err = NoError
    /\ pc = "hostPort"
    /\ loop = [i |-> 1, pi |-> 0, fpi |-> 1]
    /\ subnetIn = NoSubnetCase
    /\ subnetOut = NoResult
    /\ \/ \E h \in HostTexts, p \in PortTexts :
            hostPortIn = [split |-> TRUE, to4 |-> h.to4, to16 |-> h.to16,
                          portStr |-> p]
       \/ \E h \in HostTexts :
            hostPortIn = [split |-> FALSE, to4 |-> h.to4, to16 |-> h.to16,
                          portStr |-> <<>>]
    /\ hostPortOut = NoResult
    /\ AllocatorNotStarted

\* A decode of the destination text into a fresh hostPort
UnmarshalHostPort ==
    /\ pc = "hostPort"
    /\ hostPortOut' = hostPort_UnmarshalJSON(hostPortIn)
    /\ pc' = "hostPort_done"
    /\ UNCHANGED <<Natconfig, NeedKNI, NeedDHCP, err, loop, subnetIn, subnetOut,
                   hostPortIn, allocVars>>

SpecHostPort == InitHostPort /\ [][UnmarshalHostPort]_vars

----------------------------------------------------------------------------
(* Port slots and static port forwarding *)

pri2pub == 15
pub2pri == 240
connectionTimeout == 60
portReuseTimeout == 1

portReuseSetLastusedTime_swapped == connectionTimeout - portReuseTimeout

portReuseSetLastusedTime == portReuseTimeout - connectionTimeout

\* The ephemeral range is portStart .. portEnd - 1
portStart == 1024
NumPorts == 2
portEnd == portStart + NumPorts

\* pp.lastport as InitFlows sets it
InitFlows_lastport_offByOne == portStart + 1

InitFlows_lastport == portStart

\* The ports the model keeps a slot for: the ephemeral range and one port
\* below it that a static rule may name
SlotPorts == {80} \cup (portStart..(portEnd - 1))
SlotProtocols == {TCPNumber, UDPNumber}

\* The zero time.Time, long before the clock started
zeroTime == -100000

\* The zero portMapEntry
zeroPortMapEntry ==
    [lastused |-> zeroTime, finCount |-> 0, terminationDirection |-> 0,
     static |-> FALSE]

\* The entry enableStaticPortForward writes at time t
staticPortMapEntry_notStatic(t) ==
    [lastused |-> t, finCount |-> 0, terminationDirection |-> 0, static |-> FALSE]

staticPortMapEntry(t) ==
    [lastused |-> t, finCount |-> 0, terminationDirection |-> 0, static |-> TRUE]

\* allocatePublicPortPortMap: every slot is the zero entry
allocatePublicPortPortMap ==
    [ipv6 \in BOOLEAN |-> [id \in SlotProtocols |-> [p \in SlotPorts |-> zeroPortMapEntry]]]

\* allocateLookupMap on both ports: empty maps
allocateLookupMap ==
    [side \in {"private", "public"} |-> [id \in SlotProtocols |-> <<>>]]

\* sync.Map.Store
Store(m, k, v) == [x \in (DOMAIN m) \cup {k} |-> IF x = k THEN v ELSE m[x]]

SideOf(port) == IF port.Type = iPUBLIC THEN "public" ELSE "private"
OppositeSideOf(port) == IF port.Type = iPUBLIC THEN "private" ELSE "public"

\* keyEntry and valEntry of enableStaticPortForward
staticKeyEntry(port, fp) ==
    IF fp.Protocol.ipv6
    THEN [addr |-> port.Subnet6.Addr, port |-> fp.Port]
    ELSE [addr |-> port.Subnet.Addr, port |-> fp.Port]

staticValEntry(fp) ==
    IF fp.Protocol.ipv6
    THEN [addr |-> fp.Destination.Addr6, port |-> fp.Destination.Port]
    ELSE [addr |-> fp.Destination.Addr4, port |-> fp.Destination.Port]

staticDestinationNonZero(fp) ==
    IF fp.Protocol.ipv6
    THEN fp.Destination.Addr6 # zeroIPv6Addr
    ELSE fp.Destination.Addr4 # zeroIPv4Addr

\* The tables after the two Store calls of enableStaticPortForward
staticTables(tt, port, fp) ==
    IF staticDestinationNonZero(fp)
    THEN [tt EXCEPT
            ![SideOf(port)][fp.Protocol.id] =
                Store(@, staticKeyEntry(port, fp), staticValEntry(fp)),
            ![OppositeSideOf(port)][fp.Protocol.id] =
                Store(@, staticValEntry(fp), staticKeyEntry(port, fp))]
    ELSE [tt EXCEPT
            ![SideOf(port)][fp.Protocol.id] =
                Store(@, staticKeyEntry(port, fp), staticValEntry(fp))]

\* st = [translationTable, portmap]; t is time.Now()
enableStaticPortForward(st, port, fp, t) ==
    [translationTable |-> staticTables(st.translationTable, port, fp),
     portmap |->
        IF port.Type = iPUBLIC
        THEN [st.portmap EXCEPT ![fp.Protocol.ipv6][fp.Protocol.id][fp.Port] =
                                    staticPortMapEntry(t)]
        ELSE st.portmap]

\* The loop of initPortPortForwardingEntries from index i on
RECURSIVE initPortPortForwardingEntries(_, _, _, _)
initPortPortForwardingEntries(st, port, i, t) ==
    IF i > Len(port.ForwardPorts) THEN st
    ELSE initPortPortForwardingEntries(
             enableStaticPortForward(st, port, port.ForwardPorts[i], t),
             port, i + 1, t)

\* The tables and slots of a pair when InitFlows has installed the static
\* entries of the private and then of the public port
InitFlowsState(pp, t) ==
    initPortPortForwardingEntries(
        initPortPortForwardingEntries(
            [translationTable |-> allocateLookupMap,
             portmap |-> allocatePublicPortPortMap],
            pp.PrivatePort, 1, t),
        pp.PublicPort, 1, t)

----------------------------------------------------------------------------
(* The port allocator and the connection state of a slot *)

BitOr(a, b, w) == a + b - BitAnd(a, b, w)

bothDirections == BitOr(pri2pub, pub2pri, 8)

\* A slot may be given to a new flow at time t
eligible(entry, t) ==
    ~entry.static /\ t - entry.lastused >= connectionTimeout

\* The k-th port of the cyclic scan that starts at the cursor
scanPort(cursor, k) == portStart + ((cursor - portStart + k - 1) % NumPorts)

\* The first eligible port of the scan, 0 when a full cycle finds none
firstEligible(pm, cursor, t) ==
    IF \A k \in 1..NumPorts : ~eligible(pm[scanPort(cursor, k)], t)
    THEN 0
    ELSE scanPort(cursor,
                  CHOOSE k \in 1..NumPorts :
                      /\ eligible(pm[scanPort(cursor, k)], t)
                      /\ \A j \in 1..(k - 1) : ~eligible(pm[scanPort(cursor, j)], t))

\* The cursor past the selected port
cursorPast(p) == IF p + 1 >= portEnd THEN portStart ELSE p + 1

PublicAddr(ipv6) ==
    IF ipv6 THEN Natconfig.PortPairs[1].PublicPort.Subnet6.Addr
    ELSE Natconfig.PortPairs[1].PublicPort.Subnet.Addr

\* Lookup-or-allocate for the outbound flow of private endpoint src, taken
\* under the pair's lock on a miss in the private port's table
Allocate(ipv6, id, src) ==
    /\ pc = "running"
    /\ src \notin DOMAIN translationTable["private"][id]
    /\ LET p == firstEligible(portmap[ipv6][id], lastport, now)
           pub == [addr |-> PublicAddr(ipv6), port |-> p]
       IN  IF p = 0
           THEN /\ alloc' = [port |-> 0, err |-> "NoPortsAvailable"]
                /\ UNCHANGED <<portmap, translationTable, lastport, closedAt>>
           ELSE /\ alloc' = [port |-> p, err |-> NoError]
                /\ portmap' = [portmap EXCEPT ![ipv6][id][p] =
                                 [lastused |-> now, finCount |-> 0,
                                  terminationDirection |-> 0, static |-> FALSE]]
                /\ translationTable' =
                     [translationTable EXCEPT
                        !["private"][id] = Store(@, src, pub),
                        !["public"][id] = Store(@, pub, src)]
                /\ lastport' = cursorPast(p)
                /\ closedAt' = [closedAt EXCEPT ![p] = [closed |-> FALSE, at |-> 0]]
    /\ UNCHANGED <<configVars, subnetVars, flowVars, now, ticks, pairState, workers>>

\* A packet of an established TCP flow on public port p, travelling in
\* direction dir, with or without FIN: the slot is refreshed, a FIN is
\* recorded, and the second direction's FIN backdates lastused.
Packet(ipv6, p, dir, fin) ==
    /\ pc = "running"
    /\ [addr |-> PublicAddr(ipv6), port |-> p] \in DOMAIN translationTable["public"][TCPNumber]
    /\ LET e == portmap[ipv6][TCPNumber][p]
           td == IF fin THEN BitOr(e.terminationDirection, dir, 8)
                 ELSE e.terminationDirection
           closing == td = bothDirections /\ e.terminationDirection # bothDirections
       IN  /\ portmap' = [portmap EXCEPT ![ipv6][TCPNumber][p] =
                 [lastused |-> IF closing THEN now + portReuseSetLastusedTime ELSE now,
                  finCount |-> IF td # e.terminationDirection
                               THEN e.finCount + 1 ELSE e.finCount,
                  terminationDirection |-> td,
                  static |-> e.static]]
           /\ closedAt' = [closedAt EXCEPT ![p] =
                 IF closing THEN [closed |-> TRUE, at |-> now]
                 ELSE [closed |-> FALSE, at |-> 0]]
    /\ UNCHANGED <<configVars, subnetVars, flowVars, now, ticks, lastport, translationTable, alloc,
                   pairState, workers>>

MaxTicks == 2
TickSteps == {portReuseTimeout, connectionTimeout - portReuseTimeout}

\* Time passes
Tick(d) ==
    /\ pc = "running"
    /\ ticks < MaxTicks
    /\ now' = now + d
    /\ ticks' = ticks + 1
    /\ UNCHANGED <<configVars, subnetVars, flowVars, portmap, lastport, translationTable,
                   alloc, closedAt, pairState, workers>>

\* The validated static rules of the pair, private port's first: no rule at
\* all; or a private rule for TCP 1025 (bridge device) with public rules
\* forwarding TCP 1024, UDP 1025 and TCP 80 (below the ephemeral range) to
\* private hosts
AllocRuleLists ==
    {<< <<>>, <<>> >>,
     << <<[Port |-> 1025, Destination |-> HostPort4(zeroIPv4Addr, 1025),
           Protocol |-> protocolIdLookup.TCP]>>,
        <<[Port |-> 1024, Destination |-> HostPort4(IPv4(192, 168, 14, 2), 80),
           Protocol |-> protocolIdLookup.TCP],
          [Port |-> 1025, Destination |-> HostPort4(IPv4(192, 168, 14, 2), 53),
           Protocol |-> protocolIdLookup.UDP],
          [Port |-> 80, Destination |-> HostPort4(IPv4(192, 168, 14, 3), 80),
           Protocol |-> protocolIdLookup.TCP]>> >>}

\* The private endpoints that open flows; they do so in the order of their
\* ports
SrcEndpoint(port) == [addr |-> IPv4(192, 168, 14, 2), port |-> port]
SrcEndpoints == {SrcEndpoint(5001), SrcEndpoint(5002)}
NextSrcEndpoints(tt) ==
    {src \in SrcEndpoints :
        /\ src \notin DOMAIN tt
        /\ \A other \in SrcEndpoints : other.port < src.port => other \in DOMAIN tt}

\* ReadConfig accepted the pair and InitFlows has installed its static rules
InitAlloc ==
    /\ \E r \in AllocRuleLists :
         Natconfig =
           [HostName |-> "nat-host",
            PortPairs |->
              <<[PrivatePort |->
                   [DecodedPort(PrivateSubnetText, PrivateSubnet6Text, 0, "kni0",
                                r[1], zeroMACAddress) EXCEPT !.Type = iPRIVATE],
                 PublicPort |->
                   [DecodedPort(PublicSubnetText, PublicSubnet6Text, 0, "kni0",
                                r[2], zeroMACAddress) EXCEPT !.Type = iPUBLIC]]>>]
    /\ NeedKNI = TRUE
    /\ NeedDHCP = FALSE
    /\ err = NoError
    /\ pc = "running"
    /\ loop = [i |-> 2, pi |-> 2, fpi |-> 1]
    /\ subnetIn = NoSubnetCase
    /\ subnetOut = NoResult
    /\ hostPortIn = NoHostPortText
    /\ hostPortOut = NoResult
    /\ now = 0
    /\ ticks = 0
    /\ portmap = InitFlowsState(Natconfig.PortPairs[1], 0).portmap
    /\ translationTable = InitFlowsState(Natconfig.PortPairs[1], 0).translationTable
    /\ lastport = InitFlows_lastport
    /\ alloc = [port |-> 0, err |-> NoError]
    /\ closedAt = [p \in portStart..(portEnd - 1) |-> [closed |-> FALSE, at |-> 0]]
    /\ pairState = <<>>
    /\ workers = <<>>
    /\ initPorts = <<>>
    /\ wiring = <<>>

NextAlloc ==
    \/ \E src \in NextSrcEndpoints(translationTable["private"][TCPNumber]) :
         Allocate(FALSE, TCPNumber, src)
    \/ \E p \in portStart..(portEnd - 1) : Packet(FALSE, p, pri2pub, FALSE)
    \/ \E p \in portStart..(portEnd - 1), dir \in {pri2pub, pub2pri} :
         Packet(FALSE, p, dir, TRUE)
    \/ \E d \in TickSteps : Tick(d)

SpecAlloc == InitAlloc /\ [][NextAlloc]_vars

----------------------------------------------------------------------------
(* Concurrent allocation: worker threads on several pairs *)

NumWorkers == 3
Workers == 1..NumWorkers
ConcPairs == {1, 2}

\* The portPair whose mutex a worker allocating on pair i takes: its own
mutexOf_global(i) == 1

mutexOf(i) == i

\* A portPair as InitFlows leaves it when it has no static rules
freshPair ==
    [mutex |-> FALSE,
     lastport |-> InitFlows_lastport,
     portmap |-> [p \in portStart..(portEnd - 1) |-> zeroPortMapEntry],
     table |-> <<>>]

idleWorker == [pc |-> "idle", pair |-> 0, port |-> 0, err |-> NoError]

\* The flow worker w translates
WorkerFlow(w) == SrcEndpoint(5000 + w)

\* The pair's mutex is free for worker w
mutexFree(w) == ~pairState[mutexOf(workers[w].pair)].mutex

\* A packet of a new outbound flow on pair i misses the private table
Miss(w, i) ==
    /\ pc = "concurrent"
    /\ workers[w].pc = "idle"
    /\ workers' = [workers EXCEPT ![w] = [@ EXCEPT !.pc = "lock", !.pair = i]]
    /\ UNCHANGED <<configVars, subnetVars, flowVars, now, ticks, portmap, lastport,
                   translationTable, alloc, closedAt, pairState>>

\* pp.mutex.Lock()
Lock(w) ==
    /\ pc = "concurrent"
    /\ workers[w].pc = "lock"
    /\ mutexFree(w)
    /\ pairState' = [pairState EXCEPT ![mutexOf(workers[w].pair)].mutex = TRUE]
    /\ workers' = [workers EXCEPT ![w].pc = "scan"]
    /\ UNCHANGED <<configVars, subnetVars, flowVars, now, ticks, portmap, lastport,
                   translationTable, alloc, closedAt>>

\* The cyclic scan from the cursor
Scan(w) ==
    /\ pc = "concurrent"
    /\ workers[w].pc = "scan"
    /\ LET pp == pairState[workers[w].pair]
           p == firstEligible(pp.portmap, pp.lastport, now)
       IN  workers' = [workers EXCEPT ![w] =
               IF p = 0
               THEN [@ EXCEPT !.pc = "unlock", !.err = "NoPortsAvailable"]
               ELSE [@ EXCEPT !.pc = "install", !.port = p]]
    /\ UNCHANGED <<configVars, subnetVars, flowVars, now, ticks, portmap, lastport,
                   translationTable, alloc, closedAt, pairState>>

\* The selected slot is reset, the table entry installed, the cursor moved
Install(w) ==
    /\ pc = "concurrent"
    /\ workers[w].pc = "install"
    /\ LET i == workers[w].pair
           p == workers[w].port
       IN  pairState' = [pairState EXCEPT
               ![i].portmap[p] = [lastused |-> now, finCount |-> 0,
                                  terminationDirection |-> 0, static |-> FALSE],
               ![i].table = Store(@, WorkerFlow(w), p),
               ![i].lastport = cursorPast(p)]
    /\ workers' = [workers EXCEPT ![w].pc = "unlock"]
    /\ UNCHANGED <<configVars, subnetVars, flowVars, now, ticks, portmap, lastport,
                   translationTable, alloc, closedAt>>

\* pp.mutex.Unlock()
Unlock(w) ==
    /\ pc = "concurrent"
    /\ workers[w].pc = "unlock"
    /\ pairState' = [pairState EXCEPT ![mutexOf(workers[w].pair)].mutex = FALSE]
    /\ workers' = [workers EXCEPT ![w].pc = "done"]
    /\ UNCHANGED <<configVars, subnetVars, flowVars, now, ticks, portmap, lastport,
                   translationTable, alloc, closedAt>>

InitConc ==
    /\ Natconfig = [HostName |-> "nat-host", PortPairs |-> <<>>]
    /\ NeedKNI = FALSE
    /\ NeedDHCP = FALSE
    /\ err = NoError
    /\ pc = "concurrent"
    /\ loop = [i |-> 1, pi |-> 0, fpi |-> 1]
    /\ subnetIn = NoSubnetCase
    /\ subnetOut = NoResult
    /\ hostPortIn = NoHostPortText
    /\ hostPortOut = NoResult
    /\ now = 0
    /\ ticks = 0
    /\ portmap = <<>>
    /\ lastport = 0
    /\ translationTable = <<>>
    /\ alloc = [port |-> 0, err |-> NoError]
    /\ closedAt = <<>>
    /\ pairState = [i \in ConcPairs |-> freshPair]
    /\ workers = [w \in Workers |-> idleWorker]
    /\ initPorts = <<>>
    /\ wiring = <<>>

NextConc ==
    \/ \E w \in Workers, i \in ConcPairs : Miss(w, i)
    \/ \E w \in Workers : Lock(w)
    \/ \E w \in Workers : Scan(w)
    \/ \E w \in Workers : Install(w)
    \/ \E w \in Workers : Unlock(w)

SpecConc == InitConc /\ [][NextConc]_vars

----------------------------------------------------------------------------
(* InitFlows: the start-up sequence of a pair, run after ReadConfig has     *)
(* accepted the configuration                                               *)

\* flow.GetPortMACAddress: the hardware address of the interface
HwMAC(side) ==
    IF side = "private" THEN <<2, 0, 0, 0, 0, 1>> ELSE <<172, 16, 0, 0, 0, 2>>

\* Go's ^ 0x02 on a byte
FlipBit1(b) == IF (b \div 2) % 2 = 0 THEN b + 2 ELSE b - 2

\* packet.CalculateIPv6LinkLocalAddrForMAC: fe80:: and the EUI-64 of the MAC
LinkLocalFor(mac) ==
    [i \in 1..16 |->
        IF i = 1 THEN 254 ELSE IF i = 2 THEN 128
        ELSE IF i <= 8 THEN 0
        ELSE IF i = 9 THEN FlipBit1(mac[1])
        ELSE IF i = 10 THEN mac[2] ELSE IF i = 11 THEN mac[3]
        ELSE IF i = 12 THEN 255 ELSE IF i = 13 THEN 254
        ELSE mac[i - 10]]

\* packet.CalculateIPv6MulticastAddrForDstIP: ff02::1:ff and the last three
\* bytes of the address
MulticastFor(ip) ==
    [i \in 1..16 |->
        IF i = 1 THEN 255 ELSE IF i = 2 THEN 2
        ELSE IF i <= 11 THEN 0
        ELSE IF i = 12 THEN 1 ELSE IF i = 13 THEN 255
        ELSE ip[i]]

\* The fields of an ipPort that InitFlows fills in, before it has run
unresolvedPort ==
    [SrcMACAddress |-> zeroMACAddress, llAddr |-> zeroIPv6Addr,
     llMulticastAddr |-> zeroIPv6Addr, multicastAddr |-> zeroIPv6Addr]

\* ipPort.initIPv6LLAddresses on the interface `side`, whose configured
\* IPv6 subnet is subnet6
initIPv6LLAddresses(ip, subnet6) ==
    [ip EXCEPT
        !.llAddr = LinkLocalFor(ip.SrcMACAddress),
        !.llMulticastAddr = MulticastFor(LinkLocalFor(ip.SrcMACAddress)),
        !.multicastAddr = IF subnet6.Addr # zeroIPv6Addr
                          THEN MulticastFor(subnet6.Addr) ELSE @]

\* The order of the steps of InitFlows' loop body
InitFlowsOrder_wiringBeforePublicRules ==
    <<"initLocalMACs", "llPrivate", "llPublic", "mapPrivate", "mapPublic",
      "portmap", "lastport", "fwdPrivate", "wiring", "fwdPublic", "pairDone">>

InitFlowsOrder ==
    <<"initLocalMACs", "llPrivate", "llPublic", "mapPrivate", "mapPublic",
      "portmap", "lastport", "fwdPrivate", "fwdPublic", "wiring", "pairDone">>

\* The step that follows step `at`
stepAfter(at) ==
    InitFlowsOrder[1 + CHOOSE k \in 1..(Len(InitFlowsOrder) - 1) :
                           InitFlowsOrder[k] = at]

InitFlowsPair == Natconfig.PortPairs[loop.i]

\* InitFlows is called once ReadConfig has returned nil
InitFlowsEnter ==
    /\ pc = "returned"
    /\ err = NoError
    /\ Len(Natconfig.PortPairs) >= 1
    /\ pc' = InitFlowsOrder[1]
    /\ loop' = [i |-> 1, pi |-> 0, fpi |-> 1]
    /\ initPorts' = [side \in {"private", "public"} |-> unresolvedPort]
    /\ UNCHANGED <<Natconfig, NeedKNI, NeedDHCP, err, subnetVars, now, ticks,
                   portmap, lastport, translationTable, alloc, closedAt,
                   pairState, workers, wiring>>

\* pp.initLocalMACs()
InitLocalMACs ==
    /\ pc = "initLocalMACs"
    /\ initPorts' = [side \in {"private", "public"} |->
                        [initPorts[side] EXCEPT !.SrcMACAddress = HwMAC(side)]]
    /\ pc' = stepAfter(pc)
    /\ UNCHANGED <<Natconfig, NeedKNI, NeedDHCP, err, loop, subnetVars, now,
                   ticks, portmap, lastport, translationTable, alloc, closedAt,
                   pairState, workers, wiring>>

\* pp.PrivatePort.initIPv6LLAddresses(), pp.PublicPort.initIPv6LLAddresses()
InitIPv6LLAddresses ==
    /\ pc \in {"llPrivate", "llPublic"}
    /\ LET side == IF pc = "llPrivate" THEN "private" ELSE "public"
           subnet6 == IF pc = "llPrivate" THEN InitFlowsPair.PrivatePort.Subnet6
                      ELSE InitFlowsPair.PublicPort.Subnet6
       IN  initPorts' = [initPorts EXCEPT
                            ![side] = initIPv6LLAddresses(@, subnet6)]
    /\ pc' = stepAfter(pc)
    /\ UNCHANGED <<Natconfig, NeedKNI, NeedDHCP, err, loop, subnetVars, now,
                   ticks, portmap, lastport, translationTable, alloc, closedAt,
                   pairState, workers, wiring>>

\* pp.PrivatePort.allocateLookupMap(), pp.PublicPort.allocateLookupMap()
AllocateLookupMap ==
    /\ pc \in {"mapPrivate", "mapPublic"}
    /\ LET side == IF pc = "mapPrivate" THEN "private" ELSE "public"
       IN  translationTable' = Store(translationTable, side, allocateLookupMap[side])
    /\ pc' = stepAfter(pc)
    /\ UNCHANGED <<Natconfig, NeedKNI, NeedDHCP, err, loop, subnetVars, now,
                   ticks, portmap, lastport, alloc, closedAt, pairState, workers,
                   flowVars>>

\* pp.PublicPort.allocatePublicPortPortMap()
AllocatePublicPortPortMap ==
    /\ pc = "portmap"
    /\ portmap' = allocatePublicPortPortMap
    /\ pc' = stepAfter(pc)
    /\ UNCHANGED <<Natconfig, NeedKNI, NeedDHCP, err, loop, subnetVars, now,
                   ticks, lastport, translationTable, alloc, closedAt, pairState,
                   workers, flowVars>>

\* pp.lastport = portStart
SetLastport ==
    /\ pc = "lastport"
    /\ lastport' = InitFlows_lastport
    /\ pc' = stepAfter(pc)
    /\ loop' = [loop EXCEPT !.fpi = 1]
    /\ UNCHANGED <<Natconfig, NeedKNI, NeedDHCP, err, subnetVars, now, ticks,
                   portmap, translationTable, alloc, closedAt, pairState, workers,
                   flowVars>>

\* The interface whose static entries are being installed
ForwardingPort ==
    IF pc = "fwdPrivate" THEN InitFlowsPair.PrivatePort ELSE InitFlowsPair.PublicPort

\* One iteration of the loop of initPortPortForwardingEntries
EnableStaticPortForward ==
    /\ pc \in {"fwdPrivate", "fwdPublic"}
    /\ loop.fpi <= Len(ForwardingPort.ForwardPorts)
    /\ LET st == enableStaticPortForward(
                     [translationTable |-> translationTable, portmap |-> portmap],
                     ForwardingPort, ForwardingPort.ForwardPorts[loop.fpi], now)
       IN  /\ translationTable' = st.translationTable
           /\ portmap' = st.portmap
    /\ loop' = [loop EXCEPT !.fpi = @ + 1]
    /\ UNCHANGED <<Natconfig, NeedKNI, NeedDHCP, err, pc, subnetVars, now, ticks,
                   lastport, alloc, closedAt, pairState, workers, flowVars>>

\* The loop of initPortPortForwardingEntries is over
ForwardingEntriesDone ==
    /\ pc \in {"fwdPrivate", "fwdPublic"}
    /\ loop.fpi > Len(ForwardingPort.ForwardPorts)
    /\ pc' = stepAfter(pc)
    /\ loop' = [loop EXCEPT !.fpi = 1]
    /\ UNCHANGED <<Natconfig, NeedKNI, NeedDHCP, err, subnetVars, allocVars>>

\* The receivers, splitters, KNI devices, mergers and senders of the pair
WirePipeline ==
    /\ pc = "wiring"
    /\ wiring' =
         [outsPub |-> IF InitFlowsPair.PublicPort.KNIName # "" THEN 3 ELSE 2,
          outsPriv |-> IF InitFlowsPair.PrivatePort.KNIName # "" THEN 3 ELSE 2,
          pubKNI |-> InitFlowsPair.PublicPort.KNIName # "",
          privKNI |-> InitFlowsPair.PrivatePort.KNIName # ""]
    /\ pc' = stepAfter(pc)
    /\ UNCHANGED <<Natconfig, NeedKNI, NeedDHCP, err, loop, subnetVars, now,
                   ticks, portmap, lastport, translationTable, alloc, closedAt,
                   pairState, workers, initPorts>>

\* The rules a PUBLIC interface may carry: forwards to private hosts, two of
\* them to one destination endpoint, two of them of one forwarded port, one
\* to the PRIVATE interface's own address, and one to the bridge device
PublicRules ==
    {[Port |-> 80, Destination |-> HostPort4(IPv4(192, 168, 14, 2), 8080),
      Protocol |-> protocolIdLookup.TCP],
     [Port |-> 1024, Destination |-> HostPort4(IPv4(192, 168, 14, 2), 8080),
      Protocol |-> protocolIdLookup.TCP],
     [Port |-> 80, Destination |-> HostPort4(IPv4(192, 168, 14, 3), 0),
      Protocol |-> protocolIdLookup.TCP],
     [Port |-> 1025, Destination |-> HostPort4(IPv4(192, 168, 14, 2), 53),
      Protocol |-> protocolIdLookup.UDP],
     [Port |-> 80, Destination |-> HostPort6(IPv6(253, 20, 2), 8080),
      Protocol |-> protocolIdLookup.TCP6],
     [Port |-> 1024, Destination |-> HostPort4(IPv4(192, 168, 14, 1), 1025),
      Protocol |-> protocolIdLookup.TCP],
     [Port |-> 1025, Destination |-> HostPort4(zeroIPv4Addr, 1025),
      Protocol |-> protocolIdLookup.TCP]}

PrivateRuleLists ==
    {<<>>,
     <<[Port |-> 1025, Destination |-> HostPort4(zeroIPv4Addr, 1025),
        Protocol |-> protocolIdLookup.TCP]>>,
     <<[Port |-> 80, Destination |-> HostPort6(zeroIPv6Addr, 80),
        Protocol |-> protocolIdLookup.UDP6]>>}

MaxRules == 2
PublicRuleLists == UNION { [1..k -> PublicRules] : k \in 0..MaxRules }

InitInitFlows ==
    /\ \E r1 \in PrivateRuleLists, r2 \in PublicRuleLists :
         Natconfig =
           [HostName |-> "nat-host",
            PortPairs |->
              <<[PrivatePort |-> DecodedPort(PrivateSubnetText, PrivateSubnet6Text,
                                             0, "kni0", r1, zeroMACAddress),
                 PublicPort |-> DecodedPort(PublicSubnetText, PublicSubnet6Text,
                                            0, "kni0", r2, zeroMACAddress)]>>]
    /\ NeedKNI = FALSE
    /\ NeedDHCP = FALSE
    /\ err = NoError
    /\ pc = "pair"
    /\ loop = [i |-> 1, pi |-> 0, fpi |-> 1]
    /\ subnetIn = NoSubnetCase
    /\ subnetOut = NoResult
    /\ hostPortIn = NoHostPortText
    /\ hostPortOut = NoResult
    /\ AllocatorNotStarted

NextInitFlows ==
    \/ Next
    \/ InitFlowsEnter
    \/ InitLocalMACs
    \/ InitIPv6LLAddresses
    \/ AllocateLookupMap
    \/ AllocatePublicPortPortMap
    \/ SetLastport
    \/ EnableStaticPortForward
    \/ ForwardingEntriesDone
    \/ WirePipeline

SpecInitFlows == InitInitFlows /\ [][NextInitFlows]_vars

----------------------------------------------------------------------------
(* Properties *)

\* Bit k of the byte x
Bit(x, k) == (x \div (2 ^ k)) % 2

\* a and b (byte sequences) agree on every bit that is set in mask
MaskedEqual(a, b, mask) ==
    \A i \in DOMAIN mask : \A k \in 0..7 :
        Bit(mask[i], k) = 1 => Bit(a[i], k) = Bit(b[i], k)

PairsOf(cfg) == {cfg.PortPairs[i] : i \in 1..Len(cfg.PortPairs)}
PortsOf(cfg) == {pp.PrivatePort : pp \in PairsOf(cfg)} \cup {pp.PublicPort : pp \in PairsOf(cfg)}

VlanDisagree(pp) == (pp.PrivatePort.Vlan = 0) # (pp.PublicPort.Vlan = 0)
VlanErrors == {"PrivateZeroVlanPublicNonZero", "PrivateNonZeroVlanPublicZero"}

\* C1: ReadConfig returns an error whenever some pair has a zero VLAN tag on
\* one interface and a non-zero one on the other, and it returns one of the
\* two VLAN errors only at a pair whose tags disagree in that way.
C1_VlanDisagreementRejected ==
    /\ pc = "returned" =>
         \A pp \in PairsOf(Natconfig) : VlanDisagree(pp) => err # NoError
    /\ err \in VlanErrors => VlanDisagree(Natconfig.PortPairs[loop.i])

\* ReadConfig passed a first pair and returned the error of the symmetric
\* case (private tagged, public untagged) at the second.
C1_Witness ==
    /\ pc = "returned"
    /\ loop.i = 2
    /\ err = "PrivateNonZeroVlanPublicZero"
    /\ Natconfig.PortPairs[2].PrivatePort.Vlan = 7
    /\ Natconfig.PortPairs[2].PublicPort.Vlan = 0

\* C2: ReadConfig returns an error whenever some interface of some pair,
\* PRIVATE or PUBLIC, has a non-zero VLAN tag and a non-empty kni-name.
C2_VlanWithKniRejected ==
    pc = "returned" =>
        \A port \in PortsOf(Natconfig) :
            (port.Vlan # 0 /\ port.KNIName # "") => err # NoError

\* The rule the loop over ForwardPorts is about to validate
AtRule == pc = "rule" /\ loop.fpi <= Len(CurrentPort.ForwardPorts)
Rule == CurrentPort.ForwardPorts[loop.fpi]

\* The rule's destination address is the unspecified address of its family
DestUnspecified(fp) ==
    \/ fp.Destination.ipv6 /\ fp.Destination.Addr6 = zeroIPv6Addr
    \/ ~fp.Destination.ipv6 /\ fp.Destination.Addr4 = zeroIPv4Addr

FamilyConsistent(fp) == fp.Destination.ipv6 = fp.Protocol.ipv6

\* C3: validation rejects every rule whose protocol family differs from its
\* destination's family, on either interface, whatever the destination.
C3_FamilyMismatchRejected ==
    [][(AtRule /\ ~FamilyConsistent(Rule)) => err' # NoError]_vars

\* An IPv6 protocol with a non-zero IPv4 destination was rejected on the
\* PUBLIC interface, the destination lying in the private subnet.
C3_Witness ==
    /\ pc = "returned"
    /\ err = "ProtocolFamily"
    /\ loop.pi = 1
    /\ CurrentPort.ForwardPorts[1].Protocol = protocolIdLookup.TCP6
    /\ CurrentPort.ForwardPorts[1].Destination.Addr4 = IPv4(192, 168, 14, 2)
    /\ OppositePort.Subnet.addressAcquired

\* C4: on a PRIVATE interface validation rejects every rule whose
\* destination is not the unspecified address; a rule accepted there has
\* the unspecified address as destination.
C4_PrivateNonZeroRejected ==
    [][(AtRule /\ CurrentPort.Type = iPRIVATE /\ ~DestUnspecified(Rule))
          => err' # NoError]_vars

\* A family-consistent rule on the PRIVATE interface whose destination lies
\* inside the PUBLIC interface's subnet was rejected.
C4_Witness ==
    /\ pc = "returned"
    /\ err = "PrivateForward"
    /\ loop.pi = 0
    /\ CurrentPort.ForwardPorts[1].Destination.Addr4 = IPv4(192, 168, 16, 9)
    /\ OppositePort.Subnet.addressAcquired
    /\ MaskedEqual(IPv4(192, 168, 16, 9), OppositePort.Subnet.Addr,
                   OppositePort.Subnet.Mask)

\* C5: a family-consistent rule whose destination is the unspecified
\* address is accepted if and only if its interface has a kni-name and its
\* forwarded port equals its destination port, on PRIVATE and on PUBLIC.
C5_SentinelAcceptedIff ==
    [][(AtRule /\ FamilyConsistent(Rule) /\ DestUnspecified(Rule))
          => ((err' = NoError) <=>
                (CurrentPort.KNIName # "" /\ Rule.Port = Rule.Destination.Port))]_vars

\* A sentinel rule 8080 -> [::]:8080 was accepted on the PRIVATE interface.
C5_Witness ==
    /\ pc = "rule"
    /\ loop.pi = 0
    /\ loop.fpi = 2
    /\ err = NoError
    /\ CurrentPort.KNIName = "kni0"
    /\ CurrentPort.ForwardPorts[1] =
         [Port |-> 8080, Destination |-> HostPort6(zeroIPv6Addr, 8080),
          Protocol |-> protocolIdLookup.UDP6]

\* The destination address of a rule and the subnet of its family
DestAddr(fp) == IF fp.Destination.ipv6 THEN fp.Destination.Addr6 ELSE fp.Destination.Addr4
SubnetFor(port, fp) == IF fp.Destination.ipv6 THEN port.Subnet6 ELSE port.Subnet

\* C6: a rule with a non-zero destination on a PUBLIC interface is accepted
\* only if the destination agrees with the PRIVATE interface's subnet
\* address of the same family on every bit of that subnet's mask.
C6_PublicDestinationWithinOpposite ==
    [][(AtRule /\ CurrentPort.Type = iPUBLIC /\ ~DestUnspecified(Rule)
          /\ err' = NoError)
          => MaskedEqual(DestAddr(Rule), SubnetFor(OppositePort, Rule).Addr,
                         SubnetFor(OppositePort, Rule).Mask)]_vars

\* A rule on the PUBLIC interface whose destination lies in the PUBLIC
\* subnet and outside the statically configured PRIVATE one was rejected.
C6_Witness ==
    /\ pc = "returned"
    /\ loop.pi = 1
    /\ err = "OutsideSubnet6"
    /\ OppositePort.Subnet6.addressAcquired
    /\ CurrentPort.Subnet6.addressAcquired
    /\ CurrentPort.ForwardPorts[1].Destination.Addr6 = IPv6(253, 22, 9)

\* The interface has no statically configured address: its IPv4 or its
\* IPv6 subnet was given as "dhcp"
NoStaticAddress(port) ==
    ~port.Subnet.addressAcquired \/ ~port.Subnet6.addressAcquired

\* C7: ReadConfig returns an error whenever host-name is empty and some
\* interface has its IPv4 or its IPv6 subnet given as "dhcp"; with a
\* host-name it does not return the DHCP error.
C7_DhcpWithoutHostNameRejected ==
    pc = "returned" =>
        /\ (Natconfig.HostName = "" /\ \E port \in PortsOf(Natconfig) : NoStaticAddress(port))
              => err # NoError
        /\ Natconfig.HostName # "" => err # "DHCPNeedsHostName"

\* C8: the containment test answers true exactly when the address and the
\* subnet's address agree on every bit set in the mask, for IPv4 and IPv6.
C8_ContainmentIsMaskedComparison ==
    pc = "subnet_done" =>
        ((subnetOut = "true") <=>
            MaskedEqual(subnetIn.addr, subnetIn.subnet.Addr, subnetIn.subnet.Mask))

\* The last address of fd14::/64 was found inside the subnet fd14::1/64.
C8_Witness ==
    /\ pc = "subnet_done"
    /\ subnetOut = "true"
    /\ subnetIn.kind = "ipv6"
    /\ subnetIn.addr = IPv6AllOnes64
    /\ subnetIn.subnet.Addr = IPv6(253, 20, 1)
    /\ subnetIn.subnet.Mask = IPv6Mask(8)

\* The slots a static rule of the PUBLIC interface was installed into
StaticRuleSlots ==
    LET rules == Natconfig.PortPairs[1].PublicPort.ForwardPorts
    IN  {<<rules[i].Protocol.ipv6, rules[i].Protocol.id, rules[i].Port>> :
            i \in 1..Len(rules)}

StaticSlotsStayStatic ==
    pc = "running" =>
        \A slot \in StaticRuleSlots : portmap[slot[1]][slot[2]][slot[3]].static

\* A step on which lookup-or-allocate selected a slot: the slot, as the scan
\* saw it, was not static and had been idle for the reclaim threshold
AllocationSelectsReclaimable ==
    translationTable' # translationTable =>
        LET scanned == portmap[FALSE][TCPNumber][alloc'.port]
        IN  /\ alloc'.port \in portStart..(portEnd - 1)
            /\ ~scanned.static
            /\ now - scanned.lastused >= connectionTimeout
            /\ <<FALSE, TCPNumber, alloc'.port>> \notin StaticRuleSlots

\* C9: after any sequence of allocations, packet refreshes and FIN
\* observations, lookup-or-allocate never selects a slot marked static nor
\* one whose now - lastused is below the reclaim threshold at the instant of
\* the scan, and the slots installed from static rules stay static forever.
C9_AllocationNeverTakesStaticOrLiveSlot ==
    []StaticSlotsStayStatic /\ [][AllocationSelectsReclaimable]_vars

\* The second private endpoint was given port 1025, reclaimed from the first
\* after the idle timeout, while TCP 1024 is a static slot that saw traffic.
C9_Witness ==
    /\ pc = "running"
    /\ alloc = [port |-> 1025, err |-> NoError]
    /\ portmap[FALSE][TCPNumber][1024].static
    /\ portmap[FALSE][TCPNumber][1024].terminationDirection = bothDirections
    /\ SrcEndpoint(5001) \in DOMAIN translationTable["private"][TCPNumber]
    /\ translationTable["public"][TCPNumber][[addr |-> PublicAddr(FALSE), port |-> 1025]]
          = SrcEndpoint(5002)
    /\ portmap[FALSE][TCPNumber][1025].lastused = now
    /\ now >= connectionTimeout

\* A slot closed in both directions at closedAt.at and not refreshed since:
\* lastused lies idleTimeout - closeReuseTimeout before the close, so the
\* slot is eligible from closedAt.at + closeReuseTimeout on
ClosedSlotBackdated ==
    pc = "running" =>
        \A p \in portStart..(portEnd - 1) :
            closedAt[p].closed =>
                LET e == portmap[FALSE][TCPNumber][p]
                IN  /\ closedAt[p].at - e.lastused = connectionTimeout - portReuseTimeout
                    /\ ~e.static =>
                          (eligible(e, now) <=> now >= closedAt[p].at + portReuseTimeout)

\* lastused is set to anything but the current time only on the step that
\* completes the termination bitmask
BackdatedOnlyOnClose ==
    \A p \in portStart..(portEnd - 1) :
        LET e == portmap[FALSE][TCPNumber][p]
            f == portmap'[FALSE][TCPNumber][p]
        IN  f # e =>
              ((f.lastused # now') <=>
                  (e.terminationDirection # bothDirections
                     /\ f.terminationDirection = bothDirections))

\* C10: when FIN has been seen in both directions on a slot at time T and no
\* later packet refreshes it, the slot is eligible for reuse from
\* T + portReuseTimeout on and not only at T + connectionTimeout; lastused is
\* backdated by connectionTimeout - portReuseTimeout, once per connection.
C10_ClosedSlotReusableAfterReuseTimeout ==
    []ClosedSlotBackdated /\ [][BackdatedOnlyOnClose]_vars

\* One second after both FINs a dynamic slot is eligible, well before the
\* idle timeout would have freed it.
C10_Witness ==
    /\ pc = "running"
    /\ \E p \in portStart..(portEnd - 1) :
         /\ closedAt[p].closed
         /\ ~portmap[FALSE][TCPNumber][p].static
         /\ now = closedAt[p].at + portReuseTimeout
         /\ now < closedAt[p].at + connectionTimeout
         /\ eligible(portmap[FALSE][TCPNumber][p], now)

\* How far port q lies after the cursor in the cyclic order of the range
cyclicDistance(cursor, q) == (q - cursor) % NumPorts

\* A step on which lookup-or-allocate selected a slot: no eligible slot lay
\* between the cursor and the selected one, and the cursor moved just past
\* it, wrapping at the end of the range
AllocationTakesFirstFromCursor ==
    translationTable' # translationTable =>
        /\ \A q \in portStart..(portEnd - 1) :
              cyclicDistance(lastport, q) < cyclicDistance(lastport, alloc'.port)
                  => ~eligible(portmap[FALSE][TCPNumber][q], now)
        /\ eligible(portmap[FALSE][TCPNumber][alloc'.port], now)
        /\ lastport' = IF alloc'.port = portEnd - 1 THEN portStart
                         ELSE alloc'.port + 1

\* On a pair without static rules the first flow holds the first port of the
\* range and the second flow the next one
FirstTwoAllocations ==
    (pc = "running" /\ StaticRuleSlots = {}) =>
        LET table == translationTable["private"][TCPNumber]
        IN  /\ SrcEndpoint(5001) \in DOMAIN table
                 => table[SrcEndpoint(5001)].port = 1024
            /\ SrcEndpoint(5002) \in DOMAIN table
                 => table[SrcEndpoint(5002)].port = 1025

InCriticalSection(w) == workers[w].pc \in {"scan", "install", "unlock"}

\* Two flows of one pair never hold the same port
NoSharedSlot ==
    \A i \in ConcPairs :
        \A s1 \in DOMAIN pairState[i].table, s2 \in DOMAIN pairState[i].table :
            s1 # s2 => pairState[i].table[s1] # pairState[i].table[s2]

\* At most one worker of a pair is in the scan-and-select sequence
SamePairSerialized ==
    \A v \in Workers, w \in Workers :
        (v # w /\ workers[v].pair = workers[w].pair)
            => ~(InCriticalSection(v) /\ InCriticalSection(w))

\* A worker waiting for its pair's mutex finds it free unless a worker of
\* the same pair is in the scan-and-select sequence
OtherPairsNeverBlock ==
    \A w \in Workers :
        (/\ workers[w].pc = "lock"
         /\ \A v \in Workers :
               workers[v].pair = workers[w].pair => ~InCriticalSection(v))
            => mutexFree(w)

\* A pair's mutex, cursor, slots and table change only on a step of a worker
\* allocating on that pair
TouchesOwnPairOnly ==
    \A i \in ConcPairs :
        pairState'[i] # pairState[i] =>
            \E w \in Workers : workers'[w] # workers[w] /\ workers[w].pair = i

\* C12: allocation attempts on one pair are serialized by the pair's mutex,
\* so two flows interleaved in any order never get the same public port of
\* one protocol while both are live; attempts on different pairs share no
\* lock, cursor or slot state and never block each other.
C12_AllocationSerializedPerPair ==
    /\ [](pc = "concurrent" =>
             NoSharedSlot /\ SamePairSerialized /\ OtherPairsNeverBlock)
    /\ [][TouchesOwnPairOnly]_vars

\* Worker 1 installs on pair 1 while worker 3 installs on pair 2 and worker 2
\* waits for the mutex of pair 1.
C12_Witness ==
    /\ pc = "concurrent"
    /\ workers[1].pc = "install" /\ workers[1].pair = 1
    /\ workers[2].pc = "lock" /\ workers[2].pair = 1
    /\ workers[3].pc = "install" /\ workers[3].pair = 2
    /\ workers[1].port = 1024
    /\ workers[3].port = 1024

\* The rule under validation as the step leaves it
RuleAfter == CurrentPort'.ForwardPorts[loop.fpi]

\* The step accepted a rule with a non-zero destination: only an omitted
\* destination port changed, to the forwarded port
AcceptedRuleFrame ==
    (AtRule /\ ~DestUnspecified(Rule) /\ err' = NoError) =>
        /\ RuleAfter.Destination.Port =
              IF Rule.Destination.Port = 0 THEN Rule.Port
              ELSE Rule.Destination.Port
        /\ RuleAfter.Port = Rule.Port
        /\ RuleAfter.Protocol = Rule.Protocol
        /\ RuleAfter.Destination.Addr4 = Rule.Destination.Addr4
        /\ RuleAfter.Destination.Addr6 = Rule.Destination.Addr6
        /\ RuleAfter.Destination.ipv6 = Rule.Destination.ipv6

RejectedRuleFrame ==
    (AtRule /\ err' # NoError) => RuleAfter = Rule

\* C13: validation of an accepted rule with a non-zero destination address
\* sets an omitted (zero) destination port to the forwarded port, leaves a
\* non-zero one as configured, and leaves the forwarded port, the
\* destination address and the protocol alone; a rejected rule is unchanged.
C13_DestinationPortDefaulted ==
    [][AcceptedRuleFrame /\ RejectedRuleFrame]_vars

\* ReadConfig accepted a PUBLIC rule forwarding port 443, a port no rule
\* names as its destination port, and the destination port is now 443.
C13_Witness ==
    /\ pc = "returned"
    /\ err = NoError
    /\ Len(Natconfig.PortPairs[1].PublicPort.ForwardPorts) = 1
    /\ LET fp == Natconfig.PortPairs[1].PublicPort.ForwardPorts[1]
       IN  /\ fp.Port = 443
           /\ fp.Destination.Port = 443
           /\ fp.Destination.Addr4 = IPv4(192, 168, 14, 2)
           /\ fp.Protocol = protocolIdLookup.UDP

\* C14: after a successful ReadConfig every interface of every pair is in
\* static-ARP mode if and only if a non-zero dst-mac was configured for it.
C14_StaticArpIffDstMac ==
    (pc = "returned" /\ err = NoError) =>
        \A port \in PortsOf(Natconfig) :
            port.staticArpMode <=> (port.DstMACAddress # zeroMACAddress)

\* ReadConfig succeeded on two pairs; in the second the PRIVATE interface
\* has a dst-mac and is in static-ARP mode, the PUBLIC one has neither.
C14_Witness ==
    /\ pc = "returned"
    /\ err = NoError
    /\ Len(Natconfig.PortPairs) = 2
    /\ Natconfig.PortPairs[2].PrivatePort.DstMACAddress # zeroMACAddress
    /\ Natconfig.PortPairs[2].PrivatePort.staticArpMode
    /\ Natconfig.PortPairs[2].PublicPort.DstMACAddress = zeroMACAddress
    /\ ~Natconfig.PortPairs[2].PublicPort.staticArpMode
    /\ Len(Natconfig.PortPairs[2].PublicPort.ForwardPorts) = 1

\* sync.Map.Load on the table of interface `side` for protocol id
NotFound == [addr |-> <<>>, port |-> 0 - 1]
lookup(side, id, key) ==
    IF key \in DOMAIN translationTable[side][id]
    THEN translationTable[side][id][key] ELSE NotFound

PublicRulesOf(pp) == pp.PublicPort.ForwardPorts
PrivateRulesOf(pp) == pp.PrivatePort.ForwardPorts

\* The endpoint of the interface a rule of `port` forwards, and the endpoint
\* it forwards to
ForwardedEndpoint(port, fp) ==
    [addr |-> SubnetFor(port, fp).Addr, port |-> fp.Port]
DestinationEndpoint(fp) ==
    [addr |-> DestAddr(fp), port |-> fp.Destination.Port]

\* The slots some rule of the PUBLIC interface names
PublicRuleSlots(pp) ==
    {<<PublicRulesOf(pp)[i].Protocol.ipv6, PublicRulesOf(pp)[i].Protocol.id,
       PublicRulesOf(pp)[i].Port>> : i \in 1..Len(PublicRulesOf(pp))}

\* C15: after the static rules are installed, every rule of the PUBLIC
\* interface is found in the public table under (public address, forwarded
\* port) with (destination address, destination port) as its value, and its
\* slot is static with FIN counter 0 and termination bitmask 0; a sentinel
\* rule of the PRIVATE interface has its entry in the private table and
\* marks no slot static.
C15_StaticRulesInstalled ==
    pc = "pairDone" =>
        LET pp == InitFlowsPair
        IN  /\ \A i \in 1..Len(PublicRulesOf(pp)) :
                 LET fp == PublicRulesOf(pp)[i]
                     slot == portmap[fp.Protocol.ipv6][fp.Protocol.id][fp.Port]
                 IN  /\ lookup("public", fp.Protocol.id,
                               ForwardedEndpoint(pp.PublicPort, fp))
                           = DestinationEndpoint(fp)
                     /\ slot.static
                     /\ slot.finCount = 0
                     /\ slot.terminationDirection = 0
            /\ \A i \in 1..Len(PrivateRulesOf(pp)) :
                 LET fp == PrivateRulesOf(pp)[i]
                 IN  ForwardedEndpoint(pp.PrivatePort, fp)
                        \in DOMAIN translationTable["private"][fp.Protocol.id]
            /\ \A ipv6 \in BOOLEAN, id \in SlotProtocols, p \in SlotPorts :
                 portmap[ipv6][id][p].static
                    => <<ipv6, id, p>> \in PublicRuleSlots(pp)

\* C17: after the static rules are installed, for every rule of the PUBLIC
\* interface with a non-zero destination the private table maps the rule's
\* destination endpoint back to the rule's (public address, forwarded port),
\* whatever the accepted rule list; a sentinel destination has no reverse
\* entry.
C17_ReverseLookupIsIdentity ==
    pc = "pairDone" =>
        LET pp == InitFlowsPair
        IN  \A i \in 1..Len(PublicRulesOf(pp)) :
                LET fp == PublicRulesOf(pp)[i]
                IN  IF DestUnspecified(fp)
                    THEN DestinationEndpoint(fp)
                            \notin DOMAIN translationTable["private"][fp.Protocol.id]
                    ELSE lookup("private", fp.Protocol.id, DestinationEndpoint(fp))
                            = ForwardedEndpoint(pp.PublicPort, fp)

Sides == {"private", "public"}

\* Wherever a link-local address has been derived, it was derived from the
\* interface's resolved hardware address
MACsBeforeLinkLocal ==
    \A side \in DOMAIN initPorts :
        initPorts[side].llAddr # zeroIPv6Addr =>
            /\ initPorts[side].SrcMACAddress = HwMAC(side)
            /\ initPorts[side].llAddr = LinkLocalFor(HwMAC(side))
            /\ initPorts[side].llMulticastAddr = MulticastFor(initPorts[side].llAddr)

\* Some static entry or static slot exists
HasStaticEntries ==
    \/ \E side \in DOMAIN translationTable, id \in SlotProtocols :
          DOMAIN translationTable[side][id] # {}
    \/ \E ipv6 \in DOMAIN portmap, id \in SlotProtocols, p \in SlotPorts :
          portmap[ipv6][id][p].static

\* Tables of both interfaces, the slot arrays and the cursor are in place
PairAllocated ==
    /\ DOMAIN translationTable = Sides
    /\ DOMAIN portmap = BOOLEAN
    /\ lastport = portStart

AllocatedBeforeInstall ==
    (pc \in {"fwdPrivate", "fwdPublic"} \/ HasStaticEntries) => PairAllocated

\* The pair has been handed to the pipeline wiring
Wired == DOMAIN wiring # {}

InstalledBeforeWiring ==
    Wired =>
        /\ translationTable = InitFlowsState(InitFlowsPair, now).translationTable
        /\ portmap = InitFlowsState(InitFlowsPair, now).portmap
        /\ \A side \in Sides : initPorts[side].llAddr # zeroIPv6Addr

NothingInstalledAfterWiring ==
    Wired => (translationTable' = translationTable /\ portmap' = portmap
                /\ lastport' = lastport)

\* C16: for a pair InitFlows resolves the local MAC addresses before it
\* derives the IPv6 link-local and multicast addresses, allocates both
\* translation tables and the public slot arrays and sets the cursor to
\* portStart before it installs any static entry, and installs every static
\* entry of both interfaces before it hands the pair to the pipeline wiring.
C16_InitFlowsOrdered ==
    /\ [](MACsBeforeLinkLocal /\ AllocatedBeforeInstall /\ InstalledBeforeWiring)
    /\ [][NothingInstalledAfterWiring]_vars

\* The pair is wired, with a sentinel rule of the PRIVATE interface and two
\* rules of the PUBLIC interface installed and both link-local addresses set.
C16_Witness ==
    /\ pc = "pairDone"
    /\ Wired
    /\ wiring.outsPub = 3
    /\ Len(PrivateRulesOf(InitFlowsPair)) = 1
    /\ Len(PublicRulesOf(InitFlowsPair)) = 2
    /\ Cardinality(DOMAIN translationTable["public"][TCPNumber]) = 2
    /\ portmap[FALSE][TCPNumber][80].static
    /\ lastport = portStart
    /\ initPorts["public"].llAddr = LinkLocalFor(HwMAC("public"))

\* The subnet was given as "dhcp": no address yet, address and mask zero
ConfiguredAsDhcp(subnet) == ~subnet.addressAcquired

\* C18: when the PRIVATE interface's subnet of a rule's family was given as
\* "dhcp" (address 0 and mask 0 at load time), validation accepts every
\* family-consistent rule of the PUBLIC interface with a non-zero
\* destination address: the containment test against a zero mask is true.
C18_DhcpOppositeAcceptsAnyDestination ==
    [][(/\ AtRule
        /\ CurrentPort.Type = iPUBLIC
        /\ FamilyConsistent(Rule)
        /\ ~DestUnspecified(Rule)
        /\ ConfiguredAsDhcp(SubnetFor(OppositePort, Rule)))
          => (/\ err' = NoError
              /\ SubnetFor(OppositePort, Rule).Mask \in {zeroIPv4Addr, zeroIPv6Addr}
              /\ SubnetFor(OppositePort, Rule).Addr \in {zeroIPv4Addr, zeroIPv6Addr})]_vars

\* ReadConfig accepted a PUBLIC rule forwarding to 8.8.8.8, the PRIVATE
\* interface's IPv4 subnet being "dhcp" and its IPv6 subnet static.
C18_Witness ==
    /\ pc = "returned"
    /\ err = NoError
    /\ ~Natconfig.PortPairs[1].PrivatePort.Subnet.addressAcquired
    /\ Natconfig.PortPairs[1].PrivatePort.Subnet6.addressAcquired
    /\ Len(Natconfig.PortPairs[1].PublicPort.ForwardPorts) = 1
    /\ Natconfig.PortPairs[1].PublicPort.ForwardPorts[1].Destination.Addr4
          = IPv4(8, 8, 8, 8)
    /\ ~Natconfig.PortPairs[1].PublicPort.ForwardPorts[1].Destination.ipv6


----------------------------------------------------------------------------
(* C19 *)

\* The decimal value of a signed digit text
RECURSIVE decimalValue(_)
decimalValue(str) ==
    IF Len(str) = 0 THEN 0
    ELSE IF Head(str) = "-" THEN 0 - decimalValue(Tail(str))
    ELSE IF Head(str) = "+" THEN decimalValue(Tail(str))
    ELSE 10 * decimalValue(SubSeq(str, 1, Len(str) - 1)) + DigitValue[str[Len(str)]]

\* C19: parsing a "host:port" destination either fails with an error or
\* yields a port equal to the decimal value of the port text; a port text
\* whose value lies outside 0..65535 is never accepted as the value
\* mod 2^16.
C19_PortIsDecimalValueOrError ==
    (pc = "hostPort_done" /\ hostPortOut.err = NoError
        /\ Len(hostPortIn.portStr) # 0)
    => /\ decimalValue(hostPortIn.portStr) \in 0..65535
       /\ hostPortOut.out.Port = decimalValue(hostPortIn.portStr)

====
